---- MODULE Spec2Model ----
(***************************************************************************)
(* Model of server.py: the incremental crawl-and-index engine, its         *)
(* scheduler thread, the startup crawl of the __main__ block and the       *)
(* /search handler, all sharing one SQLite database.                       *)
(*                                                                         *)
(* Text is a sequence of one-character strings.  Time is a natural number, *)
(* counted in halves of the crawl interval.                                *)
(***************************************************************************)
EXTENDS Integers, Sequences, FiniteSets, TLC

\* ------------------------------------------------------------------ bounds
MaxClock == 2        \* the model clock runs over 0..MaxClock
MaxFsOps == 1        \* number of changes the environment makes

\* ------------------------------------------------------- program constants
interval == 2        \* run_periodic_crawler(interval=300): 2 units of 150 s
per_page == 30       \* search(): per_page = 30
TruncLimit == 120    \* extract_metadata: len(description) > 120
TruncKeep == 117     \* extract_metadata: description[:117]

\* ----------------------------------------------------------------- text
Whitespace == {" "}
Ellipsis == <<".", ".", ".">>
EmptyText == << >>
\* the value None of Python, where a str was expected
PyNone == <<"None">>
\* an optional element or attribute: Absent, or Some(text)
Absent == << >>
Some(s) == <<s>>

RECURSIVE lstrip(_)
lstrip(s) ==
  IF s = << >> THEN << >>
  ELSE IF Head(s) \in Whitespace THEN lstrip(Tail(s)) ELSE s

RECURSIVE rstrip(_)
rstrip(s) ==
  IF s = << >> THEN << >>
  ELSE IF s[Len(s)] \in Whitespace THEN rstrip(SubSeq(s, 1, Len(s) - 1)) ELSE s

\* str.strip()
strip(s) == rstrip(lstrip(s))

\* ----------------------------------------------------------- filesystem
\* The pages of the tree: each is the index.html of its own directory.
Paths == {"a", "b"}
\* the order in which os.walk visits their directories
WalkOrder == <<"a", "b">>

\* A parsed document: what BeautifulSoup finds in the markup.
\*   readable : open()/read()/decoding succeed
\*   title    : Absent | Some(text) | Some(PyNone)   (soup.title.string)
\*   meta_desc, meta_keywords : Absent | Some(text) | Some(PyNone)
\*              (Some(PyNone): the element has no content attribute)
\*   h1, p    : Absent | Some(text)                  (get_text())
Doc(r, t, d, k, h, p) ==
  [readable |-> r, title |-> t, meta_desc |-> d, meta_keywords |-> k,
   h1 |-> h, p |-> p]

DocX == Doc(TRUE, Some(<<"x">>), Some(<<"u">>), Some(<<"k">>), Absent, Absent)
DocY == Doc(TRUE, Some(<<"y">>), Some(<<"v">>), Absent, Absent, Some(<<"w">>))
DocBad == Doc(FALSE, Absent, Absent, Absent, Absent, Absent)

\* A file as os.stat and open see it.
File(m, s, d) == [exists |-> TRUE, mtime |-> m, size |-> s, doc |-> d]
NoFile == [exists |-> FALSE, mtime |-> 0, size |-> 0, doc |-> DocBad]

\* The contents a page file may have, with their byte sizes.
Contents == {<<1, DocX>>, <<3, DocBad>>}
\* modification times are readings of the clock
Files == {File(m, c[1], c[2]) : m \in 0..MaxClock, c \in Contents}

\* ---------------------------------------------------------- fingerprint
NoHash == << >>
\* variant: the fingerprint is built from the size alone
calculate_file_hash_size_only(file) ==
  IF file.exists THEN <<"-", file.size>> ELSE NoHash

\* f"{stat.st_mtime}-{stat.st_size}", or "" when os.stat raises
calculate_file_hash(file) ==
  IF file.exists THEN <<file.mtime, "-", file.size>> ELSE NoHash

\* ------------------------------------------------------------ extractor
Metadata(t, d, k) == [title |-> t, description |-> d, keywords |-> k]
EmptyMetadata == Metadata(EmptyText, EmptyText, EmptyText)

\* the text of the three fields before the final strip(), as lines 57-73
\* compute them from a readable document
RawMetadata(d) ==
  LET title0 == IF d.title # Absent THEN d.title[1] ELSE EmptyText
      description0 == IF d.meta_desc # Absent THEN d.meta_desc[1] ELSE EmptyText
      keywords == IF d.meta_keywords # Absent THEN d.meta_keywords[1] ELSE EmptyText
      fallback == description0 = EmptyText
      title == IF fallback /\ d.h1 # Absent THEN d.h1[1] ELSE title0
      description1 == IF fallback /\ d.p # Absent THEN d.p[1] ELSE description0
      description == IF fallback /\ Len(description1) > TruncLimit
                     THEN SubSeq(description1, 1, TruncKeep) \o Ellipsis
                     ELSE description1
  IN Metadata(title, description, keywords)

\* the try block of extract_metadata raises: open() or read() fail,
\* meta_desc['content'] or meta_keywords['content'] raise KeyError (the
\* element has no content attribute), or title is None at title.strip()
ExtractionFails(file) ==
  \/ ~file.exists
  \/ ~file.doc.readable
  \/ file.doc.meta_desc = Some(PyNone)
  \/ file.doc.meta_keywords = Some(PyNone)
  \/ RawMetadata(file.doc).title = PyNone

extract_metadata(file) ==
  IF ExtractionFails(file) THEN EmptyMetadata
  ELSE LET m == RawMetadata(file.doc)
       IN Metadata(strip(m.title), strip(m.description), strip(m.keywords))

\* ------------------------------------------------------------- database
\* A row of table pages (the path is the key of the function holding it).
Record(t, d, k, lu, h) ==
  [present |-> TRUE, title |-> t, description |-> d, keywords |-> k,
   last_updated |-> lu, file_hash |-> h]
NoRecord ==
  [present |-> FALSE, title |-> EmptyText, description |-> EmptyText,
   keywords |-> EmptyText, last_updated |-> 0, file_hash |-> NoHash]
\* init_db(): CREATE TABLE IF NOT EXISTS on a fresh database
EmptyTable == [p \in Paths |-> NoRecord]

\* variant: the stored fingerprint is not compared, every call writes
update_or_insert_page_always(db, path, metadata, file_hash, now) ==
  [ret |-> TRUE,
   db |-> [db EXCEPT ![path] =
             Record(metadata.title, metadata.description,
                    metadata.keywords, now, file_hash)]]

\* variant: an unchanged page still gets its last_updated stamped
update_or_insert_page_touch(db, path, metadata, file_hash, now) ==
  IF db[path].present /\ db[path].file_hash = file_hash
  THEN [ret |-> FALSE, db |-> [db EXCEPT ![path].last_updated = now]]
  ELSE [ret |-> TRUE,
        db |-> [db EXCEPT ![path] =
                  Record(metadata.title, metadata.description,
                         metadata.keywords, now, file_hash)]]

\* update_or_insert_page(cursor, path, metadata, file_hash), with `db` the
\* table as the cursor's connection sees it and `now` datetime.now():
\* the value returned and the table afterwards.
update_or_insert_page(db, path, metadata, file_hash, now) ==
  IF db[path].present /\ db[path].file_hash = file_hash
  THEN [ret |-> FALSE, db |-> db]
  ELSE [ret |-> TRUE,
        db |-> [db EXCEPT ![path] =
                  Record(metadata.title, metadata.description,
                         metadata.keywords, now, file_hash)]]

\* ---------------------------------------------------------------- search
ord(c) ==
  CASE c = " " -> 32 [] c = "%" -> 37 [] c = "." -> 46 [] c = "K" -> 75
    [] c = "_" -> 95 [] c = "k" -> 107 [] c = "u" -> 117 [] c = "v" -> 118
    [] c = "w" -> 119 [] c = "x" -> 120 [] c = "y" -> 121 [] OTHER -> 63

\* SQLite's LIKE folds the case of ASCII letters
lower(c) == IF c = "K" THEN "k" ELSE c

\* text LIKE pattern: % matches any run of characters, _ any one character
RECURSIVE Like(_, _)
Like(pat, txt) ==
  IF pat = << >> THEN txt = << >>
  ELSE IF Head(pat) = "%"
       THEN Like(Tail(pat), txt) \/ (txt # << >> /\ Like(pat, Tail(txt)))
  ELSE IF Head(pat) = "_"
       THEN txt # << >> /\ Like(Tail(pat), Tail(txt))
  ELSE /\ txt # << >>
       /\ lower(Head(pat)) = lower(Head(txt))
       /\ Like(Tail(pat), Tail(txt))

\* the WHERE clause of search(), or no WHERE clause for the empty query
Matches(db, query) ==
  LET search_term == <<"%">> \o query \o <<"%">>
  IN {p \in DOMAIN db :
        /\ db[p].present
        /\ \/ query = EmptyText
           \/ Like(search_term, db[p].title)
           \/ Like(search_term, db[p].description)
           \/ Like(search_term, db[p].keywords)}

\* ORDER BY title: the BINARY collation compares character codes
RECURSIVE TextLeq(_, _)
TextLeq(s, t) ==
  IF s = << >> THEN TRUE
  ELSE IF t = << >> THEN FALSE
  ELSE IF ord(Head(s)) # ord(Head(t)) THEN ord(Head(s)) < ord(Head(t))
  ELSE TextLeq(Tail(s), Tail(t))

\* the orders in which ORDER BY title may deliver the rows of S
\* (every arrangement of S in which no title precedes a smaller one: any
\* row whose title is least comes first, then the others in the same way)
RECURSIVE Orderings(_, _)
Orderings(db, S) ==
  IF S = {} THEN {<< >>}
  ELSE UNION {{<<m>> \o o : o \in Orderings(db, S \ {m})} :
                m \in {x \in S :
                         \A y \in S : TextLeq(db[x].title, db[y].title)}}

\* variant: OFFSET without LIMIT
LimitOffset_unlimited(rows, limit, offset) ==
  LET off == IF offset < 0 THEN 0 ELSE offset
  IN SubSeq(rows, off + 1, Len(rows))

\* LIMIT limit OFFSET offset (a negative OFFSET counts as zero)
LimitOffset(rows, limit, offset) ==
  LET off == IF offset < 0 THEN 0 ELSE offset
      last == IF off + limit < Len(rows) THEN off + limit ELSE Len(rows)
  IN SubSeq(rows, off + 1, last)

\* int(text): surrounding whitespace is dropped, then an optional sign and
\* one or more decimal digits; anything else raises ValueError
Digits == {"0", "1", "2", "3"}
DigitValue(c) == CASE c = "0" -> 0 [] c = "1" -> 1 [] c = "2" -> 2 [] OTHER -> 3

RECURSIVE DecimalValue(_)
DecimalValue(s) ==
  IF s = << >> THEN 0
  ELSE 10 * DecimalValue(SubSeq(s, 1, Len(s) - 1)) + DigitValue(s[Len(s)])

IsDecimal(s) == s # << >> /\ \A i \in 1..Len(s) : s[i] \in Digits

int(text) ==
  LET s == strip(text)
      signed == s # << >> /\ Head(s) \in {"-", "+"}
      body == IF signed THEN Tail(s) ELSE s
  IN IF ~IsDecimal(body) THEN [ok |-> FALSE, value |-> 0]
     ELSE [ok |-> TRUE,
           value |-> IF signed /\ Head(s) = "-"
                     THEN 0 - DecimalValue(body) ELSE DecimalValue(body)]

\* lines 164-169: request.args.get('page', '1'), int(page), 1 on ValueError;
\* a page parameter is Absent or Some(text)
ParsePage(param) ==
  LET page == IF param = Absent THEN <<"1">> ELSE param[1]
  IN IF int(page).ok THEN int(page).value ELSE 1

\* ----------------------------------------------------------------- state
VARIABLES
  fs,             \* the content root: Paths -> file
  clock,          \* time.time() / datetime.now()
  env_ops,        \* changes the environment has made so far
  db_ok,          \* the database file can be opened and written
  alive,          \* the Python process is running
  pages,          \* table pages, committed
  pending,        \* table pages as the connection holding the write lock sees it
  writer,         \* the thread whose connection holds the write lock
  pc,             \* position of each thread
  todo,           \* directories os.walk has still to visit, in order, per thread
  cur,            \* web_path of the entry being indexed, per thread
  metadata,       \* local metadata of crawl_pages, per thread
  file_hash,      \* local file_hash of crawl_pages, per thread
  updated_count,  \* local updated_count, per thread
  total_count,    \* local total_count, per thread
  next_run,       \* local next_run of run_periodic_crawler
  loop_end,       \* time crawl_pages() last returned to run_periodic_crawler
  req,            \* the /search request being handled
  response,       \* what the last /search request rendered
  run,            \* consecutive-runs scenario: number of the current run
  snap,           \* consecutive-runs scenario: table after the first run
  changed,        \* consecutive-runs scenario: pages modified between the runs
  served          \* what serve_content did for the last content request

envVars == <<fs, env_ops, db_ok>>
dbVars == <<pages, pending, writer>>
localVars == <<todo, cur, metadata, file_hash, updated_count, total_count>>
searchVars == <<req, response>>
seqVars == <<run, snap, changed>>
serveVars == <<served>>
vars == <<fs, clock, env_ops, db_ok, alive, pages, pending, writer, pc, todo,
          cur, metadata, file_hash, updated_count, total_count, next_run,
          loop_end, req, response, run, snap, changed, served>>

Threads == {"main", "bg"}
NoThread == "none"
NoPath == "-"
Never == -1
CrawlPcs == {"walk", "extract", "hash", "upsert"}
\* an execution of crawl_pages is in progress in thread t
InCrawl(t) == pc[t] \in CrawlPcs

IdleReq == [pc |-> "idle", query |-> EmptyText, page |-> 1, total_records |-> 0]
NoResponse ==
  [status |-> "none", results |-> << >>, query |-> EmptyText, page |-> 1,
   total_pages |-> 0, total_records |-> 0]

\* what a page file may be when the program starts
InitFiles == {File(0, 1, DocX)}

\* The state after the module has been imported: init_db() has run on a
\* fresh database, crawler_thread has been started (line 155) and the
\* __main__ block is about to call crawl_pages().
\* no content request has been handled yet
NoServed == [path |-> << >>, status |-> "none", calls |-> << >>]

InitCommon ==
  /\ env_ops = 0
  /\ db_ok = TRUE
  /\ alive = TRUE
  /\ writer = NoThread
  /\ todo = [t \in Threads |-> << >>]
  /\ cur = [t \in Threads |-> NoPath]
  /\ metadata = [t \in Threads |-> EmptyMetadata]
  /\ file_hash = [t \in Threads |-> NoHash]
  /\ updated_count = [t \in Threads |-> 0]
  /\ total_count = [t \in Threads |-> 0]
  /\ next_run = 0
  /\ loop_end = Never
  /\ req = IdleReq
  /\ response = NoResponse
  /\ snap = EmptyTable
  /\ changed = {}
  /\ served = NoServed

Init ==
  /\ InitCommon
  /\ fs \in [Paths -> InitFiles]
  /\ clock = 0
  /\ pages = EmptyTable
  /\ pending = EmptyTable
  /\ pc = [t \in Threads |-> IF t = "main" THEN "start" ELSE "loop"]
  /\ run = 0

\* ----------------------------------------------------------- environment
\* what a call of time.time() or datetime.now() may return: time does not
\* run backwards between two readings of the clock
Now == clock..MaxClock

\* an external writer creates, rewrites or touches a page file, which
\* sets its modification time to the current time
FsWrite(p, c) ==
  /\ alive /\ env_ops < MaxFsOps
  /\ \E now \in Now :
       /\ File(now, c[1], c[2]) # fs[p]
       /\ fs' = [fs EXCEPT ![p] = File(now, c[1], c[2])]
       /\ clock' = now
  /\ env_ops' = env_ops + 1
  /\ UNCHANGED <<db_ok, alive, dbVars, pc, localVars, next_run,
                 loop_end, searchVars, seqVars, serveVars>>

\* an external writer removes a page file
FsDelete(p) ==
  /\ alive /\ env_ops < MaxFsOps
  /\ fs[p].exists
  /\ fs' = [fs EXCEPT ![p] = NoFile]
  /\ env_ops' = env_ops + 1
  /\ UNCHANGED <<clock, db_ok, alive, dbVars, pc, localVars, next_run,
                 loop_end, searchVars, seqVars, serveVars>>

\* the storage backend becomes unavailable, or available again
DbToggle ==
  /\ alive /\ env_ops < MaxFsOps
  /\ db_ok' = ~db_ok
  /\ env_ops' = env_ops + 1
  /\ UNCHANGED <<fs, clock, alive, dbVars, pc, localVars, next_run,
                 loop_end, searchVars, seqVars, serveVars>>

\* ----------------------------------------------------------- crawl_pages
\* where thread t continues once crawl_pages() returns
AfterCrawl(t) == IF t = "main" THEN "serving" ELSE "wait"

\* lines 114-119 succeed: the connection is open, the counters are zero
Connect(t) ==
  /\ db_ok
  /\ pc' = [pc EXCEPT ![t] = "walk"]
  /\ todo' = [todo EXCEPT ![t] = WalkOrder]
  /\ updated_count' = [updated_count EXCEPT ![t] = 0]
  /\ total_count' = [total_count EXCEPT ![t] = 0]
  /\ UNCHANGED <<alive, dbVars, cur, metadata, file_hash, loop_end>>

\* an exception leaves crawl_pages in thread t: nothing catches it, so
\* the background thread ends, or the main thread ends and the process (the
\* crawler is a daemon thread) with it; the connection is dropped and its
\* transaction rolled back
Raise(t) ==
  /\ pc' = [pc EXCEPT ![t] = "dead"]
  /\ alive' = (t # "main")
  /\ writer' = IF writer = t THEN NoThread ELSE writer
  /\ pending' = IF writer = t THEN pages ELSE pending
  /\ todo' = [todo EXCEPT ![t] = << >>]
  /\ updated_count' = [updated_count EXCEPT ![t] = 0]
  /\ total_count' = [total_count EXCEPT ![t] = 0]
  /\ UNCHANGED <<pages, cur, metadata, file_hash, loop_end>>

\* __main__: crawl_pages() is called (line 239)
MainStart ==
  /\ alive /\ pc["main"] = "start"
  /\ Connect("main")
  /\ UNCHANGED <<envVars, clock, next_run, searchVars, seqVars, serveVars>>

\* __main__: sqlite3.connect raises in crawl_pages
MainStartFail ==
  /\ alive /\ pc["main"] = "start"
  /\ ~db_ok
  /\ Raise("main")
  /\ UNCHANGED <<envVars, clock, next_run, searchVars, seqVars, serveVars>>

\* run_periodic_crawler: next_run is set, crawl_pages() is called
LoopStart ==
  /\ alive /\ pc["bg"] = "loop"
  /\ \E now \in Now : clock' = now /\ next_run' = now + interval
  /\ Connect("bg")
  /\ UNCHANGED <<envVars, searchVars, seqVars, serveVars>>

\* run_periodic_crawler: sqlite3.connect raises in crawl_pages
LoopStartFail ==
  /\ alive /\ pc["bg"] = "loop"
  /\ ~db_ok
  /\ \E now \in Now : clock' = now /\ next_run' = now + interval
  /\ Raise("bg")
  /\ UNCHANGED <<envVars, searchVars, seqVars, serveVars>>

\* os.walk lists the directory of one more page (lines 121-126)
Walk(t) ==
  /\ alive /\ pc[t] = "walk"
  /\ todo[t] # << >>
  /\ LET p == Head(todo[t])
     IN /\ todo' = [todo EXCEPT ![t] = Tail(@)]
        /\ IF fs[p].exists
           THEN /\ cur' = [cur EXCEPT ![t] = p]
                /\ total_count' = [total_count EXCEPT ![t] = @ + 1]
                /\ pc' = [pc EXCEPT ![t] = "extract"]
           ELSE UNCHANGED <<cur, total_count, pc>>
  /\ UNCHANGED <<envVars, clock, alive, dbVars, metadata, file_hash,
                 updated_count, next_run, loop_end, searchVars, seqVars, serveVars>>

\* metadata = extract_metadata(file_path) (line 129)
Extract(t) ==
  /\ alive /\ pc[t] = "extract"
  /\ metadata' = [metadata EXCEPT ![t] = extract_metadata(fs[cur[t]])]
  /\ pc' = [pc EXCEPT ![t] = "hash"]
  /\ UNCHANGED <<envVars, clock, alive, dbVars, todo, cur, file_hash,
                 updated_count, total_count, next_run, loop_end, searchVars,
                 seqVars, serveVars>>

\* file_hash = calculate_file_hash(file_path) (line 130)
Hash(t) ==
  /\ alive /\ pc[t] = "hash"
  /\ file_hash' = [file_hash EXCEPT ![t] = calculate_file_hash(fs[cur[t]])]
  /\ pc' = [pc EXCEPT ![t] = "upsert"]
  /\ UNCHANGED <<envVars, clock, alive, dbVars, todo, cur, metadata,
                 updated_count, total_count, next_run, loop_end, searchVars,
                 seqVars, serveVars>>

\* the table as the connection of thread t sees it
View(t) == IF writer = t THEN pending ELSE pages

\* what update_or_insert_page does for the entry thread t is indexing,
\* when datetime.now() returns now
UpsertResult(t, now) ==
  update_or_insert_page(View(t), cur[t], metadata[t], file_hash[t], now)

\* the entry of thread t is finished: on to the next directory
NextEntry(t) ==
  /\ pc' = [pc EXCEPT ![t] = "walk"]
  /\ cur' = [cur EXCEPT ![t] = NoPath]
  /\ metadata' = [metadata EXCEPT ![t] = EmptyMetadata]
  /\ file_hash' = [file_hash EXCEPT ![t] = NoHash]

\* update_or_insert_page executes its INSERT OR REPLACE for that entry
Writes(t, now) == UpsertResult(t, now).db # View(t)

\* lines 132-134: update_or_insert_page returns; a write takes the write
\* lock of the database, which stays with the connection until its commit
Upsert(t) ==
  /\ alive /\ pc[t] = "upsert"
  /\ \E now \in Now :
       LET r == UpsertResult(t, now)
       IN /\ IF Writes(t, now)
             THEN /\ writer \in {t, NoThread}
                  /\ writer' = t
                  /\ pending' = r.db
                  /\ clock' = now
             ELSE /\ now = clock
                  /\ UNCHANGED <<writer, pending, clock>>
          /\ updated_count' =
               [updated_count EXCEPT ![t] = IF r.ret THEN @ + 1 ELSE @]
  /\ NextEntry(t)
  /\ UNCHANGED <<envVars, alive, pages, todo, total_count, next_run,
                 loop_end, searchVars, seqVars, serveVars>>

\* lines 136-137: the INSERT finds the database locked by the transaction
\* of another connection until its busy timeout ends; sqlite3 raises
\* OperationalError, which the try of crawl_pages catches
UpsertLocked(t) ==
  /\ alive /\ pc[t] = "upsert"
  /\ Writes(t, clock)
  /\ writer \notin {t, NoThread}
  /\ NextEntry(t)
  /\ UNCHANGED <<envVars, clock, alive, dbVars, todo, updated_count,
                 total_count, next_run, loop_end, searchVars, seqVars, serveVars>>

\* lines 139-141: os.walk is exhausted, conn.commit() publishes the writes,
\* the summary is printed and the locals of crawl_pages are gone
Commit(t) ==
  /\ alive /\ pc[t] = "walk" /\ todo[t] = << >>
  /\ db_ok \/ writer # t
  /\ pages' = View(t)
  /\ writer' = IF writer = t THEN NoThread ELSE writer
  /\ UNCHANGED pending
  /\ IF t = "bg"
     THEN \E now \in Now : clock' = now /\ loop_end' = now
     ELSE UNCHANGED <<clock, loop_end>>
  /\ pc' = [pc EXCEPT ![t] = AfterCrawl(t)]
  /\ updated_count' = [updated_count EXCEPT ![t] = 0]
  /\ total_count' = [total_count EXCEPT ![t] = 0]
  /\ UNCHANGED <<envVars, alive, todo, cur, metadata, file_hash, next_run,
                 searchVars, seqVars, serveVars>>

\* line 139: conn.commit() raises
CommitFail(t) ==
  /\ alive /\ pc[t] = "walk" /\ todo[t] = << >>
  /\ ~db_ok
  /\ writer = t
  /\ Raise(t)
  /\ UNCHANGED <<envVars, clock, next_run, searchVars, seqVars, serveVars>>

\* lines 148-151: the sleep loop ends once time.time() >= next_run
LoopWait ==
  /\ alive /\ pc["bg"] = "wait"
  /\ \E now \in Now : now >= next_run /\ clock' = now
  /\ pc' = [pc EXCEPT !["bg"] = "loop"]
  /\ UNCHANGED <<envVars, alive, dbVars, localVars, next_run, loop_end,
                 searchVars, seqVars, serveVars>>

\* --------------------------------------------------------------- /search
Queries == {EmptyText, <<" ", "x">>}
PageParams == {Absent}

\* variant: the description is read from the uncommitted working copy
Row_uncommitted(db, p) == <<p, db[p].title, pending[p].description>>

\* SELECT path, title, description
Row(db, p) == <<p, db[p].title, db[p].description>>

\* lines 163-172: a request arrives once app.run() serves
SearchStart(q, page) ==
  /\ alive /\ pc["main"] = "serving"
  /\ req.pc = "idle"
  /\ req' = [pc |-> "count", query |-> strip(q), page |-> ParsePage(page),
             total_records |-> 0]
  /\ response' = NoResponse
  /\ UNCHANGED <<envVars, clock, alive, dbVars, pc, localVars, next_run,
                 loop_end, seqVars, serveVars>>

\* lines 177-183 / 192-193: SELECT COUNT(*) reads the committed table
SearchCount ==
  /\ alive /\ req.pc = "count" /\ db_ok
  /\ req' = [req EXCEPT !.pc = "rows",
                        !.total_records = Cardinality(Matches(pages, req.query))]
  /\ UNCHANGED <<envVars, clock, alive, dbVars, pc, localVars, next_run,
                 loop_end, response, seqVars, serveVars>>

\* lines 185-212: the row query reads the committed table, the page is rendered
SearchRows ==
  /\ alive /\ req.pc = "rows" /\ db_ok
  /\ \E o \in Orderings(pages, Matches(pages, req.query)) :
       LET rows == [i \in 1..Len(o) |-> Row(pages, o[i])]
           offset == (req.page - 1) * per_page
       IN response' =
            [status |-> "ok",
             results |-> LimitOffset(rows, per_page, offset),
             query |-> req.query,
             page |-> req.page,
             total_pages |-> (req.total_records + per_page - 1) \div per_page,
             total_records |-> req.total_records]
  /\ req' = IdleReq
  /\ UNCHANGED <<envVars, clock, alive, dbVars, pc, localVars, next_run,
                 loop_end, seqVars, serveVars>>

\* sqlite3 raises in search(): the request fails as a whole
SearchFail ==
  /\ alive /\ req.pc \in {"count", "rows"} /\ ~db_ok
  /\ response' = [NoResponse EXCEPT !.status = "error"]
  /\ req' = IdleReq
  /\ UNCHANGED <<envVars, clock, alive, dbVars, pc, localVars, next_run,
                 loop_end, seqVars, serveVars>>

\* ---------------------------------------------------------- the program
Next ==
  \/ \E p \in Paths : \E c \in Contents : FsWrite(p, c)
  \/ \E p \in Paths : FsDelete(p)
  \/ DbToggle
  \/ MainStart
  \/ MainStartFail
  \/ LoopStart
  \/ LoopStartFail
  \/ \E t \in Threads : Walk(t)
  \/ \E t \in Threads : Extract(t)
  \/ \E t \in Threads : Hash(t)
  \/ \E t \in Threads : Upsert(t)
  \/ \E t \in Threads : UpsertLocked(t)
  \/ \E t \in Threads : Commit(t)
  \/ \E t \in Threads : CommitFail(t)
  \/ LoopWait
  \/ \E q \in Queries : \E page \in PageParams : SearchStart(q, page)
  \/ SearchCount
  \/ SearchRows
  \/ SearchFail

Spec == Init /\ [][Next]_vars

\* ------------------------------------------ two consecutive runs of Crawl
\* crawl_pages() is run twice in a row by one thread, on any table and any
\* content root; between the runs time passes and either nothing changes
\* or one indexed page is modified.
SeqFiles ==
  {File(m, c[1], c[2]) : m \in 0..MaxClock, c \in Contents \cup {<<2, DocY>>}}
SeqRecords ==
  {NoRecord} \cup
  {Record(m.title, m.description, m.keywords, 0, h) :
     m \in {EmptyMetadata, extract_metadata(File(0, 1, DocX))},
     h \in {NoHash, <<0, "-", 1>>, <<1, "-", 2>>}}

InitSeq ==
  /\ InitCommon
  /\ fs \in [Paths -> SeqFiles \cup {NoFile}]
  /\ clock = 0
  /\ pages \in [Paths -> SeqRecords]
  /\ pending = pages
  /\ pc = [t \in Threads |-> IF t = "main" THEN "start" ELSE "off"]
  /\ run = 1

\* the second run starts, nothing has changed
RerunSame ==
  /\ run = 1 /\ pc["main"] = "serving"
  /\ clock < MaxClock
  /\ run' = 2
  /\ snap' = pages
  /\ changed' = {}
  /\ clock' = clock + 1
  /\ pc' = [pc EXCEPT !["main"] = "start"]
  /\ UNCHANGED <<envVars, alive, dbVars, localVars, next_run, loop_end,
                 searchVars, serveVars>>

\* the second run starts after the size or the modification time of one
\* indexed page has changed
RerunTouched(p, f) ==
  /\ run = 1 /\ pc["main"] = "serving"
  /\ clock < MaxClock
  /\ fs[p].exists /\ pages[p].present
  /\ f.mtime # fs[p].mtime \/ f.size # fs[p].size
  /\ fs' = [fs EXCEPT ![p] = f]
  /\ run' = 2
  /\ snap' = pages
  /\ changed' = {p}
  /\ clock' = clock + 1
  /\ pc' = [pc EXCEPT !["main"] = "start"]
  /\ UNCHANGED <<env_ops, db_ok, alive, dbVars, localVars, next_run, loop_end,
                 searchVars, serveVars>>

NextSeq ==
  \/ MainStart
  \/ Walk("main")
  \/ Extract("main")
  \/ Hash("main")
  \/ Upsert("main")
  \/ Commit("main")
  \/ RerunSame
  \/ \E p \in Paths : \E f \in SeqFiles : RerunTouched(p, f)

SpecSeq == InitSeq /\ [][NextSeq]_vars

\* ------------------------------------------- searches during the crawls
\* The serving phase on its own: the startup crawl has returned, app.run()
\* serves /search requests and the background loop crawls; the table holds
\* any records earlier runs of the program left, the content root any pages.
ServeFiles == {File(0, 1, DocX), File(0, 3, DocBad), NoFile}

InitServe ==
  /\ InitCommon
  /\ fs \in [Paths -> ServeFiles]
  /\ clock = 0
  /\ pages \in [Paths -> SeqRecords]
  /\ pending = pages
  /\ pc = [t \in Threads |-> IF t = "main" THEN "serving" ELSE "loop"]
  /\ run = 0

NextServe ==
  \/ LoopStart
  \/ Walk("bg")
  \/ Extract("bg")
  \/ Hash("bg")
  \/ Upsert("bg")
  \/ Commit("bg")
  \/ LoopWait
  \/ \E q \in Queries : \E page \in PageParams : SearchStart(q, page)
  \/ SearchCount
  \/ SearchRows

SpecServe == InitServe /\ [][NextServe]_vars

\* ============================================================ properties

\* the startup thread has walked the whole tree and is about to commit and
\* print its summary
RunDone == pc["main"] = "walk" /\ todo["main"] = << >>

\* the entry thread t is indexing, as its connection sees it now and next
Stored(t) == View(t)[cur[t]]
StoredNext(t) == (IF writer' = t THEN pending' ELSE pages')[cur[t]]
\* thread t leaves lines 128-137 for the entry it is indexing
EntryDone(t) == pc[t] = "upsert" /\ pc'[t] = "walk"
\* ... and update_or_insert_page returned (it did not raise)
UpsertReturns(t) ==
  EntryDone(t) /\ ~(Writes(t, clock) /\ writer \notin {t, NoThread})

\* C1: at most one execution of crawl_pages is in progress at any time,
\* counting the background loop and the startup crawl of __main__.
AtMostOneCrawl == Cardinality({t \in Threads : InCrawl(t)}) <= 1

\* C2: when crawl_pages runs twice in a row and the filesystem does not
\* change, the second run updates nothing (updated_count = 0) and leaves
\* every record as the first run left it.
IdempotentSecondRun ==
  (run = 2 /\ changed = {} /\ pc["main"] # "start") =>
     /\ updated_count["main"] = 0
     /\ View("main") = snap

IdempotentSecondRunWitness ==
  /\ run = 2 /\ changed = {} /\ RunDone
  /\ total_count["main"] = Cardinality(Paths)
  /\ \E p \in Paths : snap[p].last_updated >= 1

\* C3: when exactly one indexed page has its size or modification time
\* changed between two crawls, the second crawl rewrites that page's record
\* (metadata of the file, new fingerprint, later last_updated) and leaves
\* every other record unchanged in all fields.
ChangeDetection ==
  /\ (run = 2 /\ changed # {} /\ RunDone) => updated_count["main"] = 1
  /\ (run = 2 /\ changed # {} /\ pc["main"] = "serving") =>
     \A p \in Paths :
          IF p \in changed
          THEN LET m == extract_metadata(fs[p])
               IN /\ pages[p].present
                  /\ pages[p].title = m.title
                  /\ pages[p].description = m.description
                  /\ pages[p].keywords = m.keywords
                  /\ pages[p].file_hash = calculate_file_hash(fs[p])
                  /\ pages[p].file_hash # snap[p].file_hash
                  /\ pages[p].last_updated > snap[p].last_updated
          ELSE pages[p] = snap[p]

ChangeDetectionWitness ==
  /\ run = 2 /\ pc["main"] = "serving"
  /\ \E p \in changed :
       /\ pages[p].file_hash # snap[p].file_hash
       /\ \E q \in Paths \ {p} : snap[q].present /\ fs[q].exists

\* C4: a crawl of the background loop that fails as a whole does not end
\* the loop: the thread of run_periodic_crawler never terminates.
SchedulerSurvivesCrawlFailure == pc["bg"] # "dead"

\* the time at which the loop called the crawl it is running: line 145 sets
\* next_run to that time plus interval
LoopCrawlBegin == next_run - interval

\* C5: every crawl of the background loop after its first starts no earlier
\* than one full interval after the previous crawl of the loop finished.
WaitMeasuredFromCrawlEnd ==
  (InCrawl("bg") /\ loop_end # Never) => LoopCrawlBegin >= loop_end + interval

\* C6: no search request is handled before the startup crawl has completed,
\* and the background loop does not start a crawl before the startup crawl
\* has ended.
StartupOrdering ==
  /\ (req.pc # "idle" \/ response.status # "none") => pc["main"] = "serving"
  /\ InCrawl("bg") => pc["main"] = "serving"

\* C7: when the fingerprint of an entry is the empty sentinel, the crawl
\* writes nothing for it: no record is inserted, an existing record keeps
\* all its fields, and the entry is not counted as updated.
FingerprintFailureSkipsWrite ==
  [][\A t \in Threads :
       (EntryDone(t) /\ file_hash[t] = NoHash) =>
          /\ StoredNext(t) = Stored(t)
          /\ updated_count'[t] = updated_count[t]]_vars

\* C8: a page whose extraction fails is counted in total but not in
\* updated, and the crawl goes on to the remaining pages.
ExtractionFailureNotCounted ==
  [][(EntryDone("main") /\ ExtractionFails(fs[cur["main"]])) =>
        /\ total_count["main"] >= 1
        /\ updated_count'["main"] = updated_count["main"]
        /\ todo'["main"] = todo["main"]]_vars

\* C9: update_or_insert_page inserts the record when the path has none,
\* overwrites metadata, fingerprint and last_updated when the stored
\* fingerprint differs from the given one, and otherwise leaves the record
\* untouched including last_updated; it returns true (the entry is counted
\* as updated) exactly when it wrote, and no other record changes.
UpsertWritesOnlyOnMismatch ==
  [][\A t \in Threads :
       UpsertReturns(t) =>
         /\ IF Stored(t).present /\ Stored(t).file_hash = file_hash[t]
            THEN /\ StoredNext(t) = Stored(t)
                 /\ updated_count'[t] = updated_count[t]
            ELSE /\ StoredNext(t) =
                      Record(metadata[t].title, metadata[t].description,
                             metadata[t].keywords, clock', file_hash[t])
                 /\ updated_count'[t] = updated_count[t] + 1
         /\ \A p \in Paths \ {cur[t]} :
              (IF writer' = t THEN pending' ELSE pages')[p] = View(t)[p]]_vars

UpsertWritesOnlyOnMismatchWitness ==
  \E p \in Paths :
    /\ pending[p].present /\ pages[p].present
    /\ pending[p].file_hash # pages[p].file_hash
    /\ pending[p].last_updated > pages[p].last_updated
    /\ \E q \in Paths \ {p} : pending[q] = pages[q] /\ pages[q].present

\* the (title, description) pairs a complete upsert can store: those of the
\* metadata extract_metadata returns for a page file
UpsertValues ==
  {<<extract_metadata(f).title, extract_metadata(f).description>> :
     f \in Files \cup {NoFile}}

\* C10: every (path, title, description) tuple a search returns is the
\* value of one complete upsert, never a mix of fields of two writes, also
\* when the search runs while a crawl is in progress.
SearchReturnsWholeRecords ==
  response.status = "ok" =>
    \A i \in 1..Len(response.results) :
      <<response.results[i][2], response.results[i][3]>> \in UpsertValues

SearchReturnsWholeRecordsWitness ==
  /\ response.status = "ok"
  /\ InCrawl("bg") /\ writer = "bg"
  /\ \E i \in 1..Len(response.results) :
       LET p == response.results[i][1]
       IN /\ response.results[i] = Row(pages, p)
          /\ pending[p].title # pages[p].title

\* C11: within one call of search() the reported total and the returned
\* rows come from the same state of the index: the total is the number of
\* matching records of the table the rows are read from, also when a crawl
\* commits between the count query and the row query.
SearchConsistentSnapshot ==
  [][(req.pc = "rows" /\ response'.status = "ok") =>
        response'.total_records = Cardinality(Matches(pages, req.query))]_vars

\* --------------------------------------------- one search on a fixed index
\* search() alone: no crawl runs, the table holds any of a few small sets
\* of records or a long run of records with distinct titles, and one
\* request is handled at a time.
MaxPages == 2

QueryTexts == {EmptyText, <<"x">>, <<" ", "k">>, <<"K">>, <<"_">>}
QueryPageParams ==
  {Absent, Some(EmptyText), Some(<<"x">>), Some(<<"0">>), Some(<<"-", "1">>),
   Some(<<"1">>), Some(<<" ", "2">>), Some(<<"3">>), Some(<<"1", "0">>)}

QueryRecords ==
  {NoRecord} \cup
  {Record(m.title, m.description, m.keywords, 0, NoHash) :
     m \in {EmptyMetadata, extract_metadata(File(0, 1, DocX)),
            extract_metadata(File(0, 2, DocY))}}

\* the i-th record of a long table: three letters that spell i in base 6
TitleLetters == <<"k", "u", "v", "w", "x", "y">>
LongRecord(i) ==
  Record(<<TitleLetters[((i \div 36) % 6) + 1], TitleLetters[((i \div 6) % 6) + 1],
           TitleLetters[(i % 6) + 1]>>,
         <<"u">>, EmptyText, 0, NoHash)
LongTable(n) == [i \in 1..n |-> LongRecord(i)]
\* table sizes around the page boundaries
RowCounts ==
  {n \in {k * per_page + d : k \in 0..MaxPages, d \in {-1, 0, 1}} : n >= 0}

InitQuery ==
  /\ InitCommon
  /\ fs = [p \in Paths |-> NoFile]
  /\ clock = 0
  /\ pages \in [Paths -> QueryRecords] \cup {LongTable(n) : n \in RowCounts}
  /\ pending = pages
  /\ pc = [t \in Threads |-> IF t = "main" THEN "serving" ELSE "off"]
  /\ run = 0

NextQuery ==
  \/ \E q \in QueryTexts : \E page \in QueryPageParams : SearchStart(q, page)
  \/ SearchCount
  \/ SearchRows

SpecQuery == InitQuery /\ [][NextQuery]_vars

\* the page parameter is a decimal number that is at least 1
PositivePage(param) ==
  /\ param # Absent
  /\ int(param[1]).ok
  /\ int(param[1]).value >= 1

\* C12: a page parameter that is missing, not a number, or a number that
\* is zero or negative makes search() behave as for page 1: the page it
\* works with and reports is 1.
PageDefaultsToOne ==
  [][\A q \in QueryTexts : \A param \in QueryPageParams :
       (SearchStart(q, param) /\ ~PositivePage(param)) => req'.page = 1]_vars

\* the least number of pages of k rows that hold n rows
Ceil(n, k) == CHOOSE c \in 0..n : c * k >= n /\ (c - 1) * k < n

Fold(s) == [i \in 1..Len(s) |-> lower(s[i])]
\* sub occurs in txt as a run of consecutive characters
Contains(sub, txt) ==
  \E i \in 0..Len(txt) :
    i + Len(sub) <= Len(txt) /\ SubSeq(txt, i + 1, i + Len(sub)) = sub
\* the records that hold q in their title, description or keywords
Holding(db, q) ==
  {p \in DOMAIN db :
     /\ db[p].present
     /\ \/ Contains(Fold(q), Fold(db[p].title))
        \/ Contains(Fold(q), Fold(db[p].description))
        \/ Contains(Fold(q), Fold(db[p].keywords))}

\* C14: search() returns exactly the records that hold the query q as a
\* substring of their title, description or keywords (here: whatever the
\* case of the letters), every record for the empty q, in ascending order
\* of title; shown on the first page.
SearchMatchesSubstring ==
  (response.status = "ok" /\ response.page = 1) =>
    LET found == {response.results[i][1] : i \in 1..Len(response.results)}
        held == Holding(pages, response.query)
    IN /\ found \subseteq held
       /\ Cardinality(held) <= per_page => held \subseteq found
       /\ \A i, j \in 1..Len(response.results) :
            i < j => TextLeq(response.results[i][2], response.results[j][2])

\* C15: records are never deleted. Whatever crawls run and however the page
\* files change or disappear, a path that has a record keeps having one,
\* and the record of a page file that is gone keeps the fields last stored
\* from the file: it is not overwritten with what reading the missing file
\* gives.
RecordsNeverDeleted ==
  [][\A p \in Paths :
       pages[p].present =>
         /\ pages'[p].present
         /\ (~fs'[p].exists /\ pages'[p] # pages[p]) =>
              pages'[p].file_hash # NoHash]_vars

\* no step removes a record: the set of indexed paths never shrinks
IndexedPathsNeverShrink ==
  [][\A p \in Paths : pages[p].present => pages'[p].present]_vars

\* ------------------------------------------------ /<path:requested_path>
\* A request path is a sequence of path symbols: the separator "/", the
\* dot ".", and names. A name stands for a run of characters that holds
\* neither a separator nor a dot next to a dot, so the text '..' occurs in
\* a path exactly where two dot symbols are adjacent.
MaxPathLen == 3
PathSymbols == {"/", ".", "a", "index.html"}
RequestPaths == UNION {[1..n -> PathSymbols] : n \in 1..MaxPathLen}

ParentSegment == <<".", ".">>

\* variant: only the leading separator is tested
Rejected_absolute_only(requested_path) == Head(requested_path) = "/"

\* line 216: '..' in requested_path or requested_path.startswith('/')
Rejected(requested_path) ==
  \/ Contains(ParentSegment, requested_path)
  \/ Head(requested_path) = "/"

\* the segments of a path: what stands between its separators
RECURSIVE Split(_)
Split(path) ==
  IF \A i \in 1..Len(path) : path[i] # "/" THEN <<path>>
  ELSE LET i == CHOOSE k \in 1..Len(path) :
                  path[k] = "/" /\ \A j \in 1..(k - 1) : path[j] # "/"
       IN <<SubSeq(path, 1, i - 1)>> \o Split(SubSeq(path, i + 1, Len(path)))

\* os.path.normpath on the segments of a relative path: empty and '.'
\* segments are dropped, '..' removes the segment before it or stays in
\* front; the empty result is the path '.'
RECURSIVE Normalise(_, _)
Normalise(segs, acc) ==
  IF segs = << >> THEN acc
  ELSE LET s == Head(segs)
       IN IF s = << >> \/ s = <<".">> THEN Normalise(Tail(segs), acc)
          ELSE IF s = ParentSegment /\ acc # << >> /\ acc[Len(acc)] # ParentSegment
               THEN Normalise(Tail(segs), SubSeq(acc, 1, Len(acc) - 1))
          ELSE Normalise(Tail(segs), Append(acc, s))
normpath(path) == Normalise(Split(path), << >>)

\* WEB_DIR holds one directory per page, each with or without its
\* index.html; nothing is found outside WEB_DIR
PageDir(safe_path) == Len(safe_path) = 1 /\ \E p \in Paths : safe_path[1] = <<p>>
Outside(requested_path, safe_path) ==
  \/ Head(requested_path) = "/"
  \/ safe_path # << >> /\ safe_path[1] = ParentSegment
isdir(files, requested_path, safe_path) ==
  /\ ~Outside(requested_path, safe_path)
  /\ safe_path = << >> \/ PageDir(safe_path)
has_index(files, requested_path, safe_path) ==
  /\ ~Outside(requested_path, safe_path)
  /\ PageDir(safe_path)
  /\ files[safe_path[1][1]].exists
isfile(files, requested_path, safe_path) ==
  /\ ~Outside(requested_path, safe_path)
  /\ Len(safe_path) = 2
  /\ PageDir(<<safe_path[1]>>)
  /\ safe_path[2] = <<"index.html">>
  /\ files[safe_path[1][1]].exists

\* lines 215-236: the status of the response and the filesystem calls made
serve_content(files, requested_path) ==
  IF Rejected(requested_path) THEN [status |-> "403", calls |-> << >>]
  ELSE LET safe_path == normpath(requested_path)
           dir == isdir(files, requested_path, safe_path)
           index == has_index(files, requested_path, safe_path)
           file == isfile(files, requested_path, safe_path)
           c1 == IF dir THEN <<"isdir", "exists">> ELSE <<"isdir">>
       IN IF dir /\ index
          THEN [status |-> "200", calls |-> c1 \o <<"send">>]
          ELSE IF file
          THEN [status |-> "200", calls |-> c1 \o <<"isfile", "send">>]
          ELSE IF index
          THEN [status |-> "200", calls |-> c1 \o <<"isfile", "exists", "send">>]
          ELSE [status |-> "404", calls |-> c1 \o <<"isfile", "exists">>]

\* a content request is handled once app.run() serves
ServeContent(requested_path) ==
  /\ alive /\ pc["main"] = "serving"
  /\ LET r == serve_content(fs, requested_path)
     IN served' = [path |-> requested_path, status |-> r.status,
                   calls |-> r.calls]
  /\ UNCHANGED <<envVars, clock, alive, dbVars, pc, localVars, next_run,
                 loop_end, searchVars, seqVars>>

InitFetch ==
  /\ InitCommon
  /\ fs \in [Paths -> ServeFiles]
  /\ clock = 0
  /\ pages = EmptyTable
  /\ pending = EmptyTable
  /\ pc = [t \in Threads |-> IF t = "main" THEN "serving" ELSE "off"]
  /\ run = 0

NextFetch == \E requested_path \in RequestPaths : ServeContent(requested_path)

SpecFetch == InitFetch /\ [][NextFetch]_vars

\* the path has a segment '..'
HasParentSegment(path) ==
  \E i \in 1..Len(Split(path)) : Split(path)[i] = ParentSegment

\* C16: a content request whose path has a parent-directory segment or
\* starts with the separator (an absolute path) is rejected with status 403
\* and no filesystem call (isdir, isfile, exists, send) is made for it.
PathSafety ==
  (served.status # "none"
     /\ (HasParentSegment(served.path) \/ served.path[1] = "/")) =>
    /\ served.status = "403"
    /\ served.calls = << >>

PathSafetyWitness ==
  /\ served.status = "403"
  /\ served.path[1] # "/"
  /\ HasParentSegment(served.path)
  /\ Len(served.path) > Len(ParentSegment)

\* ------------------------------------------- one crawl of any page markup
\* The startup crawl on a content root with one page, whose markup is any
\* combination of a title element (absent, without a single text child, or
\* with text), meta description and meta keywords elements (absent, without
\* content attribute, or with content), a first h1 and a first p.
MaxOver == 2

\* a text of n characters whose characters around the cut differ
Text(n) ==
  [i \in 1..n |-> IF i = TruncKeep THEN "u"
                  ELSE IF i = TruncKeep + 1 THEN "v" ELSE "w"]

ExtractTitles ==
  {Absent, Some(PyNone), Some(<<"x">>), Some(<<" ", "x", " ">>)}
ExtractMetaDescs ==
  {Absent, Some(PyNone), Some(EmptyText), Some(<<"u">>), Some(<<" ", "u">>)}
ExtractMetaKeywords == {Absent, Some(PyNone), Some(<<"k">>)}
ExtractH1s == {Absent, Some(EmptyText), Some(<<"y">>)}
ExtractParagraphs ==
  {Absent, Some(EmptyText), Some(<<"w">>), Some(<<" ">> \o Text(TruncLimit))}
  \cup {Some(Text(n)) : n \in (TruncLimit - 1)..(TruncLimit + MaxOver)}
ExtractDocs ==
  {Doc(TRUE, t, d, k, h, p) :
     t \in ExtractTitles, d \in ExtractMetaDescs, k \in ExtractMetaKeywords,
     h \in ExtractH1s, p \in ExtractParagraphs}

InitExtract ==
  /\ InitCommon
  /\ \E d \in ExtractDocs :
       fs = [p \in Paths |-> IF p = "a" THEN File(0, 1, d) ELSE NoFile]
  /\ clock = 0
  /\ pages = EmptyTable
  /\ pending = EmptyTable
  /\ pc = [t \in Threads |-> IF t = "main" THEN "start" ELSE "off"]
  /\ run = 0

NextExtract ==
  \/ MainStart
  \/ Walk("main")
  \/ Extract("main")
  \/ Hash("main")
  \/ Upsert("main")
  \/ Commit("main")

SpecExtract == InitExtract /\ [][NextExtract]_vars

\* the element is there and its content attribute holds some text
HasContent(element) == element # Absent /\ element[1] \notin {PyNone, EmptyText}
\* the text of the title element, trimmed; none when there is no such text
TitleText(d) ==
  IF d.title \in {Absent, Some(PyNone)} THEN EmptyText ELSE strip(d.title[1])

\* C17: for markup with a meta description element that has content and a
\* non-empty first paragraph, whatever its title, h1 and keywords elements
\* are, extract_metadata returns the trimmed content of the meta element as
\* description and the text of the title element as title: the fallback
\* to h1 and paragraph is not applied.
MetaDescriptionWins ==
  pc["main"] = "hash" =>
    LET d == fs[cur["main"]].doc
    IN (HasContent(d.meta_desc) /\ d.p # Absent /\ d.p[1] # EmptyText) =>
         /\ metadata["main"].description = strip(d.meta_desc[1])
         /\ metadata["main"].title = TitleText(d)

\* C18: for markup without meta description whose first paragraph (taken
\* without leading whitespace, which the final trim would drop) is longer
\* than 120 characters, the stored description is 120 characters long: the
\* first 117 characters of the paragraph and then "..."; a paragraph of at
\* most 120 characters is stored untruncated.
FallbackTruncation ==
  pc["main"] = "serving" =>
    LET d == fs["a"].doc
    IN (d.meta_desc = Absent /\ d.p # Absent /\ lstrip(d.p[1]) = d.p[1]) =>
         /\ pages["a"].present
         /\ IF Len(d.p[1]) > TruncLimit
            THEN /\ pages["a"].description = SubSeq(d.p[1], 1, TruncKeep) \o Ellipsis
                 /\ Len(pages["a"].description) = TruncLimit
            ELSE pages["a"].description = strip(d.p[1])

\* C19: whenever no crawl is in progress, every record whose stored
\* fingerprint is the current fingerprint of its page file holds the
\* metadata of the file's current content, also when the file was modified
\* while a crawl was between extracting and fingerprinting it.
FingerprintAndMetadataAgree ==
  (\A t \in Threads : ~InCrawl(t)) =>
    \A p \in Paths :
      (pages[p].present /\ fs[p].exists
         /\ pages[p].file_hash = calculate_file_hash(fs[p])) =>
        /\ pages[p].title = extract_metadata(fs[p]).title
        /\ pages[p].description = extract_metadata(fs[p]).description
        /\ pages[p].keywords = extract_metadata(fs[p]).keywords

\* nothing will write the index again: the startup crawl has returned, the
\* thread of run_periodic_crawler has ended, no transaction is open
IndexFinal ==
  alive /\ pc["main"] = "serving" /\ pc["bg"] = "dead" /\ writer = NoThread

\* the index holds a record for p with the fingerprint of its file
InSync(p) ==
  pages[p].present /\ pages[p].file_hash = calculate_file_hash(fs[p])

\* C20: a page file that has been created or changed and then stays
\* unchanged and readable is eventually indexed with its fingerprint.
\* Stated on finite runs: the program never gets to where the index cannot
\* change any more while a readable page file is not indexed with its
\* fingerprint (left unchanged from there, the file is never synchronized).
EventualSynchronization ==
  IndexFinal =>
    \A p \in Paths : (fs[p].exists /\ fs[p].doc.readable) => InSync(p)

====
